---- MODULE Spec2Model ----
(***************************************************************************)
(* Model of the recipe transpiler (src/src/lib.rs): the nom combinator     *)
(* parser (skip, comment, recipe, instruction, parse), the Display         *)
(* renderers of Recipe and Instruction, and the transpile entry point.     *)
(*                                                                         *)
(* Text is a sequence of characters; a character is a TLA+ string.  ASCII  *)
(* characters stand for themselves.  The non-ASCII characters of the       *)
(* program's literals are named by their code point or reading (IDSP is    *)
(* U+3000, the ideographic space the templates use and str::trim removes). *)
(***************************************************************************)
EXTENDS Integers, Sequences, FiniteSets, TLC

VARIABLES input, pc, result, output

vars == <<input, pc, result, output>>

----------------------------------------------------------------------------
(* Characters *)

IDSP == "u3000"
NI == "u306B"
WO == "u3092"
SHI == "u3057"
TE == "u3066"
KAN == "u5B8C"
SEI == "u6210"
BANG == "uFF01"
HON_O == "u304A"
KONO == "u597D"
MI == "u307F"
DE == "u3067"
LQ == "u300C"
RQ == "u300D"
KUWA == "u52A0"
HE == "u3048"
RU == "u308B"

\* nom's multispace0 accepts exactly these four characters.
MultiSpace == {" ", "\t", "\r", "\n"}

\* char::is_whitespace, as used by str::trim: the Unicode White_Space
\* characters; of the model's characters these are the four above and U+3000.
WhiteSpace == MultiSpace \cup {IDSP}

\* is_not(">)\r\n#"): base text and process text
BaseStop == {">", ")", "\r", "\n", "#"}

\* is_not(">\r\n#"): inline ingredient name
InlineStop == {">", "\r", "\n", "#"}

\* is_not("\r\n"): comment body
LineEnd == {"\r", "\n"}

----------------------------------------------------------------------------
(* Strings *)

Drop(s, n) == SubSeq(s, n + 1, Len(s))

Take(s, n) == SubSeq(s, 1, n)

\* length of the longest prefix of s whose characters are all in S
RECURSIVE PrefixIn(_, _)
PrefixIn(s, S) ==
    IF s = <<>> \/ s[1] \notin S THEN 0 ELSE 1 + PrefixIn(Tail(s), S)

\* length of the longest prefix of s with no character in S
RECURSIVE PrefixNotIn(_, _)
PrefixNotIn(s, S) ==
    IF s = <<>> \/ s[1] \in S THEN 0 ELSE 1 + PrefixNotIn(Tail(s), S)

Reverse(s) == [i \in 1..Len(s) |-> s[Len(s) + 1 - i]]

trim_start(s) == Drop(s, PrefixIn(s, WhiteSpace))

trim_end(s) == Take(s, Len(s) - PrefixIn(Reverse(s), WhiteSpace))

\* a trim that forgets the trailing side
trim_leading_only(s) == trim_start(s)

\* str::trim
trim(s) == trim_end(trim_start(s))

----------------------------------------------------------------------------
(* Parser results: IResult<&str, T> *)

Ok(rest, val) == [ok |-> TRUE, rest |-> rest, val |-> val]

\* Err(Err::Error(_)): the parsers here use no cut, so every error is
\* recoverable by opt and alt.  The error's kind and position are not modelled.
Err == [ok |-> FALSE, rest |-> <<>>, val |-> <<>>]

\* character::complete::char
char(i, c) == IF i # <<>> /\ i[1] = c THEN Ok(Tail(i), c) ELSE Err

\* character::complete::multispace0: the input after the run
multispace0(i) == Drop(i, PrefixIn(i, MultiSpace))

\* a mis-written is_not that accepts an empty run (take_till)
take_till(i, stop) ==
    LET n == PrefixNotIn(i, stop) IN Ok(Drop(i, n), Take(i, n))

\* bytes::complete::is_not: the longest run free of stop, an error when empty
is_not(i, stop) ==
    LET n == PrefixNotIn(i, stop)
    IN  IF n = 0 THEN Err ELSE Ok(Drop(i, n), Take(i, n))

\* fn comment: '#' and the rest of the line
comment(i) ==
    LET h == char(i, "#")
    IN  IF ~h.ok THEN Err
        ELSE LET b == is_not(h.rest, LineEnd)
             IN  IF b.ok THEN b ELSE Ok(h.rest, <<>>)

\* fn skip: whitespace, at most one comment, whitespace; never fails
skip(i) ==
    LET a == multispace0(i)
    IN  LET c == comment(a)
        IN  multispace0(IF c.ok THEN c.rest ELSE a)

----------------------------------------------------------------------------
(* The tree *)

Recipe(base, instructions) == [base |-> base, instructions |-> instructions]

AddIngredients(recipe, optional) ==
    [kind |-> "AddIngredients", recipe |-> recipe, optional |-> optional]

Process(text) == [kind |-> "Process", text |-> text]

----------------------------------------------------------------------------
(* The grammar *)

\* combinator::eof
eof(i) == IF i = <<>> THEN Ok(i, <<>>) ELSE Err

\* alt and opt: the first result if it succeeded, else the second
or_else(a, b) == IF a.ok THEN a ELSE b

RECURSIVE recipe(_)

\* the inline alternative of the ingredient source: a bare name, no instructions
inline_source(i) ==
    LET s == is_not(skip(i), InlineStop)
    IN  IF s.ok THEN Ok(s.rest, Recipe(trim(s.val), <<>>)) ELSE Err

\* delimited: the recipe r between the parentheses, then ')'
close_paren(r) ==
    LET rp == char(skip(r.rest), ")")
    IN  IF r.ok /\ rp.ok THEN Ok(rp.rest, r.val) ELSE Err

\* the parenthesized alternative: '(' recipe ')'
paren_source(i) ==
    LET lp == char(skip(i), "(")
    IN  IF lp.ok THEN close_paren(recipe(lp.rest)) ELSE Err

\* alt((delimited('(', recipe, ')'), inline name)): what follows '+'
ingredient_source(i) == or_else(paren_source(i), inline_source(i))

\* a closure that drops the marker
add_never_optional(q, src) ==
    IF src.ok THEN Ok(src.rest, AddIngredients(src.val, FALSE)) ELSE Err

\* the closure building Instruction::AddIngredients from (opt, recipe), applied
\* by map to the result q of opt('?') and the result src of the source
add_of(q, src) ==
    IF src.ok THEN Ok(src.rest, AddIngredients(src.val, q.ok)) ELSE Err

\* the first alternative of instruction: '?'? '+' ingredient_source
add_ingredients(i) ==
    LET q == char(skip(i), "?")
    IN  LET p == char(skip(IF q.ok THEN q.rest ELSE i), "+")
        IN  IF p.ok THEN add_of(q, ingredient_source(p.rest)) ELSE Err

\* the second alternative of instruction: a process step
process(i) ==
    LET s == is_not(skip(i), BaseStop)
    IN  IF s.ok THEN Ok(s.rest, Process(trim(s.val))) ELSE Err

\* fn instruction
instruction(i) == or_else(add_ingredients(i), process(i))

RECURSIVE list_tail(_, _)

\* separated_list1 after a separator: the element e parsed after it is pushed
\* and the loop goes on, or, e failing, the list ends at i, before the separator
list_more(i, res, e) ==
    IF e.ok THEN list_tail(e.rest, Append(res, e.val)) ELSE Ok(i, res)

\* the loop of multi::separated_list1 with separator preceded(skip, '>') and
\* element instruction
list_tail(i, res) ==
    LET s == char(skip(i), ">")
    IN  IF s.ok THEN list_more(i, res, instruction(s.rest)) ELSE Ok(i, res)

\* separated_list1 on its first element, which is required
list_first(first) ==
    IF first.ok THEN list_tail(first.rest, <<first.val>>) ELSE Err

\* multi::separated_list1(preceded(skip, '>'), instruction)
separated_list1(i) == list_first(instruction(i))

\* opt(preceded(preceded(skip, '>'), separated_list1)), unwrap_or_default
instruction_list(i) ==
    LET g == char(skip(i), ">")
    IN  or_else(IF g.ok THEN separated_list1(g.rest) ELSE Err, Ok(i, <<>>))

\* the closure building Recipe from (base, instructions)
recipe_of(b, l) == Ok(l.rest, Recipe(trim(b.val), l.val))

\* fn recipe
recipe(i) ==
    LET b == is_not(skip(i), BaseStop)
    IN  IF b.ok THEN recipe_of(b, instruction_list(b.rest)) ELSE Err

\* a parse without the terminating eof
unterminated(r) == IF r.ok THEN Ok(skip(r.rest), r.val) ELSE Err

\* terminated(delimited(skip, recipe, skip), eof) on the result r of recipe
terminated(r) ==
    LET e == eof(skip(r.rest))
    IN  IF r.ok /\ e.ok THEN Ok(e.rest, r.val) ELSE Err

\* fn parse
parse(i) == terminated(recipe(skip(i)))

----------------------------------------------------------------------------
(* The renderer *)

TerminalPhrase == <<KAN, SEI, BANG>>

RECURSIVE InstructionToString(_)

\* the loop of Display for Instruction over the nested recipe's instructions
RECURSIVE NestedToString(_)
NestedToString(is) ==
    IF is = <<>> THEN <<>>
    ELSE <<IDSP>> \o InstructionToString(Head(is)) \o <<IDSP, SHI, TE>>
            \o NestedToString(Tail(is))

\* impl Display for Instruction
InstructionToString(ins) ==
    IF ins.kind = "Process" THEN <<LQ>> \o ins.text \o <<RQ>>
    ELSE (IF ins.optional THEN <<HON_O, KONO, MI, DE, IDSP>> ELSE <<>>)
            \o <<LQ>> \o ins.recipe.base \o <<IDSP, WO>>
            \o NestedToString(ins.recipe.instructions)
            \o <<KUWA, HE, RU, RQ>>

RECURSIVE StepsToString(_, _)

\* a loop that writes the terminal phrase after every instruction
StepsEachDone(is, k) ==
    IF k > Len(is) THEN <<>>
    ELSE (IF k = 1 THEN <<IDSP, NI>> ELSE <<>>)
            \o <<"\n">> \o InstructionToString(is[k]) \o <<IDSP, WO, SHI, TE>>
            \o <<"\n">> \o TerminalPhrase
            \o StepsToString(is, k + 1)

\* the loop of Display for Recipe: the connective after the base before the
\* first instruction, then a line per instruction
StepsToString(is, k) ==
    IF k > Len(is) THEN <<>>
    ELSE (IF k = 1 THEN <<IDSP, NI>> ELSE <<>>)
            \o <<"\n">> \o InstructionToString(is[k]) \o <<IDSP, WO, SHI, TE>>
            \o StepsToString(is, k + 1)

\* impl Display for Recipe
RecipeToString(r) ==
    r.base \o StepsToString(r.instructions, 1) \o <<"\n">> \o TerminalPhrase

----------------------------------------------------------------------------
(* Inputs and the entry point *)

\* the characters of the grammar's tokens and of ordinary text
StructChars == {"a", " ", ">", "+", "?", "(", ")"}

\* with line ends, comments, U+3000 and the terminal phrase's characters
AllChars == StructChars \cup {"\n", "#", IDSP, KAN, SEI, BANG}

MaxLen == 5

MaxLexLen == 3

Strings(S, n) == UNION {[1..k -> S] : k \in 0..n}

Inputs == Strings(StructChars, MaxLen) \cup Strings(AllChars, MaxLexLen)

Init ==
    /\ input \in Inputs
    /\ pc = "call"
    /\ result = Err
    /\ output = <<>>

\* fn transpile, parse succeeded: the rendered text is returned
TranspileOk ==
    /\ pc = "call"
    /\ parse(input).ok
    /\ result' = parse(input)
    /\ output' = RecipeToString(result'.val)
    /\ pc' = "ok"
    /\ UNCHANGED input

\* fn transpile, parse failed: map_err and the early return of '?'; the text
\* after the fixed prefix is nom's rendering of the error, not modelled
TranspileErr ==
    /\ pc = "call"
    /\ ~parse(input).ok
    /\ result' = parse(input)
    /\ output' = <<"parse error: ">>
    /\ pc' = "err"
    /\ UNCHANGED input

Next == TranspileOk \/ TranspileErr

Spec == Init /\ [][Next]_vars

----------------------------------------------------------------------------
(* Reading inputs and trees *)

\* the input with every comment ('#' to the end of its line) removed
RECURSIVE Uncommented(_)
Uncommented(s) ==
    IF s = <<>> THEN <<>>
    ELSE IF s[1] = "#"
         THEN Uncommented(Drop(s, 1 + PrefixNotIn(Tail(s), LineEnd)))
         ELSE <<s[1]>> \o Uncommented(Tail(s))

Count(s, c) == Cardinality({k \in 1..Len(s) : s[k] = c})

\* the instructions of a list and of every recipe nested in it, in order
RECURSIVE FlatInstructions(_)
FlatInstructions(is) ==
    IF is = <<>> THEN <<>>
    ELSE LET h == Head(is)
         IN  <<h>>
                \o (IF h.kind = "AddIngredients"
                    THEN FlatInstructions(h.recipe.instructions) ELSE <<>>)
                \o FlatInstructions(Tail(is))

AllInstructions(r) == FlatInstructions(r.instructions)

TextOf(ins) == IF ins.kind = "Process" THEN ins.text ELSE ins.recipe.base

\* every text slice stored in the tree: the root's base, then one per instruction
Texts(r) ==
    <<r.base>> \o [k \in 1..Len(AllInstructions(r)) |-> TextOf(AllInstructions(r)[k])]

RECURSIVE SumCount(_, _)
SumCount(ts, c) ==
    IF ts = <<>> THEN 0 ELSE Count(Head(ts), c) + SumCount(Tail(ts), c)

NumWhere(is, P(_)) == Cardinality({k \in 1..Len(is) : P(is[k])})

IsAdd(ins) == ins.kind = "AddIngredients"

IsOptional(ins) == ins.kind = "AddIngredients" /\ ins.optional

IsProcess(ins) == ins.kind = "Process"

Returned == pc # "call"

Succeeded == pc = "ok"

Failed == pc = "err"

----------------------------------------------------------------------------
(* C1 *)

OrdinaryChars == {"a", KAN, SEI, BANG}

\* the recipe production matched and, after one trailing skip, input remains
TrailingLeft ==
    LET r == recipe(skip(input)) IN r.ok /\ skip(r.rest) # <<>>

\* C1: parse succeeds only if the whole input is consumed.  If input remains
\* after a complete recipe and one trailing skip, parse fails; on success the
\* returned remainder is empty and the tree is not built from a prefix: every
\* ordinary character outside comments is in a text of the tree.
C1_WholeInputConsumed ==
    Returned =>
        /\ TrailingLeft => Failed /\ ~result.ok
        /\ Succeeded =>
              /\ result.ok
              /\ result.rest = <<>>
              /\ \A c \in OrdinaryChars :
                    Count(Uncommented(input), c) = SumCount(Texts(result.val), c)

C1_Witness == Failed /\ TrailingLeft /\ Count(input, "a") > 0

----------------------------------------------------------------------------
(* C2 *)

Insert(s, p, f) == Take(s, p) \o f \o Drop(s, p)

\* positions of a comment-free input that are token boundaries whatever the
\* parse: the start, the end, and either side of a '>' (no text run holds '>')
Boundaries(s) ==
    {p \in 0..Len(s) :
        \/ p = 0
        \/ p = Len(s)
        \/ s[p] = ">"
        \/ s[p + 1] = ">"}

\* insignificant runs with at most one comment
OneCommentFillers ==
    { <<" ">>, <<"\n">>, <<" ", "\n", " ">>,
      <<"#", "\n">>, <<" ", "#", "a", ">", "\n", " ">> }

\* insignificant runs with two or three consecutive comment lines
ManyCommentFillers ==
    { <<"#", "\n", "#", "\n">>,
      <<"#", "a", "\n", " ", "#", "\n">>,
      <<"#", "\n", "#", "\n", "#", "\n">> }

Transparent(fillers) ==
    Succeeded /\ Count(input, "#") = 0 =>
        \A p \in Boundaries(input) : \A f \in fillers :
            parse(Insert(input, p, f)) = result

\* C2: comments and whitespace are transparent.  Inserting a run of
\* whitespace and any number of comments, two or more consecutive comment
\* lines included, at a token boundary of an input that parses to R gives an
\* input that parses to the same R.
C2_Transparent == Transparent(OneCommentFillers \cup ManyCommentFillers)

\* the same with at most one comment in the inserted run: holds of the code
C2_OneCommentTransparent == Transparent(OneCommentFillers)

----------------------------------------------------------------------------
(* C3 *)

\* C3 as claimed: '?' '+' source gives optional = true, no '?' gives
\* optional = false, and a '?' anywhere else makes parse fail, so on success
\* every '?' outside comments is the marker of an optional ingredient.
C3_MarkerOrError ==
    Succeeded =>
        Count(Uncommented(input), "?")
            = NumWhere(AllInstructions(result.val), IsOptional)

\* the input taken as an ingredient source, after '+' and after '?' '+'
Plain == parse(<<"a", ">", "+">> \o input)

Marked == parse(<<"a", ">", "?", " ", "+">> \o input)

FirstIsAdd(r) == r.ok /\ r.val.instructions # <<>> /\ IsAdd(r.val.instructions[1])

\* C3 amended: '?' '+' source gives AddIngredients with optional = true and
\* the same instruction without '?' gives optional = false; a '?' anywhere
\* else is not an error but ordinary text, kept in the text slice it falls in.
C3_MarkerOrText ==
    /\ Succeeded =>
          Count(Uncommented(input), "?")
              = NumWhere(AllInstructions(result.val), IsOptional)
                    + SumCount(Texts(result.val), "?")
    /\ Returned /\ FirstIsAdd(Plain) =>
          /\ ~Plain.val.instructions[1].optional
          /\ Marked.ok
          /\ Marked.val.base = Plain.val.base
          /\ Marked.val.instructions
                = [Plain.val.instructions EXCEPT ![1].optional = TRUE]

C3_Witness ==
    /\ Succeeded
    /\ NumWhere(AllInstructions(result.val), IsOptional) > 0
    /\ SumCount(Texts(result.val), "?") > 0
    /\ FirstIsAdd(Plain)

----------------------------------------------------------------------------
(* C4 *)

Wrapped == parse(<<"a", ">", "+", "(">> \o input \o <<")">>)

\* C4: parenthesized ingredient sources recurse.  For a comment-free recipe
\* text S that parses to R, '+' '(' S ')' parses to an AddIngredients whose
\* nested recipe is R.
C4_ParenRecurses ==
    Succeeded /\ Count(input, "#") = 0 =>
        /\ Wrapped.ok
        /\ Wrapped.val = Recipe(<<"a">>, <<AddIngredients(result.val, FALSE)>>)

----------------------------------------------------------------------------
(* C5 *)

\* a '>' outside comments with only multispace characters and comments after
\* it, to the end of the input
RECURSIVE OnlySkippable(_)
OnlySkippable(s) ==
    \/ s = <<>>
    \/ s[1] \in MultiSpace /\ OnlySkippable(Tail(s))
    \/ s[1] = "#" /\ OnlySkippable(Drop(s, 1 + PrefixNotIn(Tail(s), LineEnd)))

RECURSIVE DanglingGt(_)
DanglingGt(s) ==
    /\ s # <<>>
    /\ IF s[1] = "#" THEN DanglingGt(Drop(s, 1 + PrefixNotIn(Tail(s), LineEnd)))
       ELSE \/ s[1] = ">" /\ OnlySkippable(Tail(s))
            \/ DanglingGt(Tail(s))

----------------------------------------------------------------------------
(* C6 *)

BaseOnly(s) ==
    /\ \A k \in 1..Len(s) : s[k] \notin BaseStop
    /\ \E k \in 1..Len(s) : s[k] \notin WhiteSpace

\* s without its leading and trailing whitespace, read off the positions of
\* its first and last non-whitespace characters
Stripped(s) ==
    LET solid == {k \in 1..Len(s) : s[k] \notin WhiteSpace}
    IN  SubSeq(s, CHOOSE k \in solid : \A j \in solid : k <= j,
                  CHOOSE k \in solid : \A j \in solid : j <= k)

\* C6: a base-only input (no '>', ')', '#', CR, LF; some non-whitespace
\* character) parses to a recipe with no instructions whose base is the input
\* without its leading and trailing whitespace, everything between verbatim.
C6_BaseOnly ==
    Returned /\ BaseOnly(input) =>
        /\ Succeeded
        /\ result.val = Recipe(Stripped(input), <<>>)

C6_Witness ==
    /\ Succeeded
    /\ BaseOnly(input)
    /\ Len(input) - Len(result.val.base) >= 2
    /\ input[1] \in WhiteSpace
    /\ input[Len(input)] \in WhiteSpace
    /\ \E k \in 1..Len(result.val.base) : result.val.base[k] \in WhiteSpace

----------------------------------------------------------------------------
(* C7 *)

Trimmed(t) == t = <<>> \/ (t[1] \notin WhiteSpace /\ t[Len(t)] \notin WhiteSpace)

Bases(r) ==
    {r.base} \cup {AllInstructions(r)[k].recipe.base :
                        k \in {j \in 1..Len(AllInstructions(r)) : IsAdd(AllInstructions(r)[j])}}

\* C7: after a successful parse the base of the root and of every nested
\* recipe is non-empty with no leading or trailing whitespace, and every
\* process text has no leading or trailing whitespace.
C7_NonEmptyBase ==
    Succeeded =>
        /\ \A b \in Bases(result.val) : b # <<>> /\ Trimmed(b)
        /\ \A k \in 1..Len(Texts(result.val)) : Trimmed(Texts(result.val)[k])

----------------------------------------------------------------------------
(* C8 *)

EndsWith(s, t) == Len(s) >= Len(t) /\ SubSeq(s, Len(s) - Len(t) + 1, Len(s)) = t

Occurrences(s, t) ==
    Cardinality({k \in 1..(Len(s) - Len(t) + 1) : SubSeq(s, k, k + Len(t) - 1) = t})

RECURSIVE SumOccurrences(_, _)
SumOccurrences(ts, t) ==
    IF ts = <<>> THEN 0 ELSE Occurrences(Head(ts), t) + SumOccurrences(Tail(ts), t)

\* C8 as claimed: the rendered text ends with a newline and the terminal
\* phrase, and the phrase occurs exactly once in the whole output.
C8_PhraseOnce ==
    Succeeded =>
        /\ EndsWith(output, <<"\n">> \o TerminalPhrase)
        /\ Occurrences(output, TerminalPhrase) = 1

\* C8 amended: the rendered text ends with a newline and the terminal phrase;
\* the renderer writes the phrase once, at the end, and nested recipes never
\* write it, so the phrase occurs once more in the output than in the texts
\* of the tree (exactly once when no text of the tree contains it).
C8_PhraseOnceBeyondTexts ==
    Succeeded =>
        /\ EndsWith(output, <<"\n">> \o TerminalPhrase)
        /\ Occurrences(output, TerminalPhrase)
              = 1 + SumOccurrences(Texts(result.val), TerminalPhrase)
        /\ \A k \in 1..Len(result.val.instructions) :
              LET ins == result.val.instructions[k]
              IN  Occurrences(InstructionToString(ins), TerminalPhrase)
                    = SumOccurrences(Texts(Recipe(<<>>, <<ins>>)), TerminalPhrase)

C8_Witness ==
    /\ Succeeded
    /\ \E k \in 1..Len(result.val.instructions) : IsOptional(result.val.instructions[k])
    /\ Occurrences(output, TerminalPhrase) = 1

----------------------------------------------------------------------------
(* C9 *)

\* C9: '+' is a reserved sentinel.  In the tree of a successful parse no
\* process text, at any depth, begins with '+'.
C9_PlusReserved ==
    Succeeded =>
        \A k \in 1..Len(AllInstructions(result.val)) :
            LET ins == AllInstructions(result.val)[k]
            IN  IsProcess(ins) => ins.text = <<>> \/ ins.text[1] # "+"

----------------------------------------------------------------------------
(* C10 *)

\* C10: after '+', a '(' always opens a parenthesized recipe, so in the tree
\* of a successful parse no ingredient's base begins with '('.
C10_ParenPreferred ==
    Succeeded =>
        \A k \in 1..Len(AllInstructions(result.val)) :
            LET ins == AllInstructions(result.val)[k]
            IN  IsAdd(ins) => ins.recipe.base = <<>> \/ ins.recipe.base[1] # "("

====
